---- MODULE Spec2Model ----
(***************************************************************************)
(* CommuMap service-availability engine.                                   *)
(*                                                                         *)
(* The model follows one Service row through the code paths that change   *)
(* its status and capacity (the manager API views, Service.update_capacity*)
(* and the console bulk action), the pre_save/post_save receivers of       *)
(* apps/services/signals.py that detect what changed through a cache      *)
(* entry, and the records those receivers create.  Requests are executed  *)
(* by the workers of Procs; every database query and every cache          *)
(* operation is one step, so that two requests on the same service        *)
(* interleave exactly where the code lets them.                           *)
(*                                                                         *)
(* The cache keeps what is set in it, as the default cache of              *)
(* commumap/settings/base.py does (its CACHES block is commented out).     *)
(* Under commumap/settings/development.py the backend is DummyCache,       *)
(* cache.get always misses and the receivers create no record at all.      *)
(***************************************************************************)
EXTENDS Integers, Sequences, FiniteSets, TLC

VARIABLES
    db,        \* the stored Service row
    cache,     \* the cache entry service_old_state_<pk>: <<>> or <<old_state>>
    pc,        \* position of each worker in its request
    req,       \* the request each worker is serving
    inst,      \* the in-memory Service instance of each worker
    snap,      \* old_state built by capture_service_changes, before cache.set
    kept,      \* old_status / old_capacity kept by the views for the history row
    result,    \* the response of each worker's request
    out,       \* the records each worker created while serving its request,
               \* and the functions that logged an error (errors)
    commits,   \* the status/capacity transitions each worker's UPDATE committed
    base,      \* the stored row when the current batch of requests began
    prev,      \* the status set by the request served just before, if it set one
    observers, \* NotificationDispatcher._observers, in subscription order
    dpc,       \* notify_observers: "idle", "iterating" or "returned"
    idx,       \* position of the loop of notify_observers in _observers
    subscribed,\* _observers as it was when notify_observers was called
    calls,     \* the observers whose handle_notification the call has invoked
    logged,    \* what the call has logged: the observer and the level
    escaped,   \* an exception has left notify_observers
    services,  \* the Service rows a search runs on, in the order of their ids
    criteria,  \* the keyword arguments of the last search
    results,   \* the rows the last search returned, annotated, in order
    registry,  \* SearchStrategyFactory._strategies: the class under each name
    context,   \* a SearchContext: its _strategy and its _strategy_name
    call,      \* the current call on the factory or the context, its outcome
               \* and the registry and the context as they were when it began
    queue,     \* the NotificationQueue rows, in the order of their creation
    run,       \* each run of process_notification_queue: its position and
               \* the instances it has fetched and not yet handled
    attempts,  \* how many times a send of each notification was attempted
    deliveries,\* how many times each notification was sent with success
    singleton, \* a console singleton class: _instance, _lock, and how many
               \* instances were allocated and initialized
    caller,    \* each thread constructing the singleton: its position and
               \* what it was handed
    settings,  \* the stored SystemSettings row
    loader,    \* the SettingsLoader: _cached_settings and _feature_flags
    toggled    \* what the last toggle_feature_flag of each flag returned

evars == <<db, cache, pc, req, inst, snap, kept, result, out, commits, base, prev>>
dvars == <<observers, dpc, idx, subscribed, calls, logged, escaped>>
svars == <<services, criteria, results>>
fvars == <<registry, context, call>>
qvars == <<queue, run, attempts, deliveries>>
nvars == <<singleton, caller>>
lvars == <<settings, loader, toggled>>
kvars == <<fvars, qvars, nvars, lvars>>
vars == <<evars, dvars, svars, kvars>>

----------------------------------------------------------------------------
(* Domains                                                                 *)

Procs == {1, 2}

OPEN == "open"
CLOSED == "closed"
TEMPORARILY_CLOSED == "temp_closed"
FULL == "full"
LIMITED == "limited"
EMERGENCY_ONLY == "emergency"

ServiceStatus == {OPEN, CLOSED, TEMPORARILY_CLOSED, FULL, LIMITED, EMERGENCY_ONLY}

\* The one service of the requesting manager; any other pk matches no row
\* of Service.objects.get(pk=pk, manager=request.user).
ServiceId == "s1"
PkInputs == {"s1", "s9"}

NoUser == "none"
Manager == "manager"
Admin == "admin"

\* Values a request can carry.  "bogus" is a status outside the enum.
StatusInputs == ServiceStatus \cup {"bogus"}
CapacityInputs == {0 - 1, 0, 50, 70, 85, 89, 90, 95, 99, 100, 120}
\* max_capacity of the service: 0 stands for unset (null), see
\* capacity_percentage.
MaxCapacityChoices == {0, 100}

\* Inputs of the runs in which two requests overlap.
ConcStatusInputs == {CLOSED, EMERGENCY_ONLY, "bogus"}
ConcCapacityInputs == {0 - 1, 50, 70, 100}

NoCapacity == 0 - 1
NoStatus == ""

NoInstance ==
    [current_status |-> NoStatus, current_capacity |-> 0, max_capacity |-> 0,
     is_emergency_service |-> FALSE, status_updated_by |-> NoUser]

NoOldState ==
    [current_status |-> NoStatus, current_capacity |-> 0, max_capacity |-> 0]

NoOld == [status |-> NoStatus, capacity |-> NoCapacity]

NoReq == [op |-> "none", pk |-> "", status |-> NoStatus, capacity |-> 0]

NoOut ==
    [events |-> <<>>, audit |-> <<>>, alerts |-> <<>>, notified |-> <<>>,
     history |-> <<>>, warnings |-> 0, errors |-> <<>>]

----------------------------------------------------------------------------
(* Service properties                                                      *)

\* capacity_percentage is None when max_capacity is unset or 0; the
\* comparisons pct >= k are done on integers (cur * 100 >= k * max).
HasPercentage(s) == s.max_capacity > 0

is_near_capacity(s) ==
    HasPercentage(s) /\ s.current_capacity * 100 >= 90 * s.max_capacity

\* The comparison alone, whatever max_capacity is.
IsAtCapacityAnyMax(s) == s.current_capacity * 100 >= 100 * s.max_capacity

is_at_capacity(s) ==
    HasPercentage(s) /\ s.current_capacity * 100 >= 100 * s.max_capacity

\* A column without the check of PositiveIntegerField.
DbAcceptsAnything(row) == row.current_capacity \in Int

\* PositiveIntegerField: the database rejects a negative value.
DbAccepts(row) == row.current_capacity >= 0

\* A lookup that finds a row for every pk.
ExistsAnywhere(pk) == pk \in PkInputs

\* Service.objects.get(pk=pk, manager=request.user) finds a row.
Exists(pk) == pk = ServiceId

\* The list with one status forgotten.
ValidStatusListShort == {"open", "closed", "temp_closed", "full", "emergency"}

\* The statuses UpdateServiceStatusAPIView.post accepts.
ValidStatusList == {"open", "closed", "temp_closed", "full", "limited", "emergency"}

----------------------------------------------------------------------------
(* Records created by the post_save handlers                               *)

StatusEvent(old, new) ==
    [change_type |-> "status", old_status |-> old, new_status |-> new,
     old_capacity |-> NoCapacity, new_capacity |-> NoCapacity]

CapacityEvent(old, new) ==
    [change_type |-> "capacity", old_status |-> NoStatus, new_status |-> NoStatus,
     old_capacity |-> old, new_capacity |-> new]

Alert(type, priority, ack) ==
    [alert_type |-> type, priority |-> priority, requires_acknowledgment |-> ack]

\* handle_alert_created: the event type sent to the observers for a new alert.
AlertNotification(alert) ==
    IF alert.priority >= 4 THEN "emergency_alert" ELSE "service_alert"

\* AlertFactory.create_capacity_alert: the explicit priority is 2 at full
\* capacity and 1 otherwise.
create_capacity_alert(service) ==
    Alert("capacity", IF is_at_capacity(service) THEN 2 ELSE 1, FALSE)

\* AlertFactory.create_emergency_alert.
create_emergency_alert == Alert("urgent", 5, TRUE)

Produced(events, audit, alerts, notified) ==
    [events |-> events, audit |-> audit, alerts |-> alerts, notified |-> notified]

Nothing == Produced(<<>>, <<>>, <<>>, <<>>)

Both(a, b) ==
    Produced(a.events \o b.events, a.audit \o b.audit,
             a.alerts \o b.alerts, a.notified \o b.notified)

\* _handle_emergency_status_change: the alert, the notification its own
\* post_save sends, and the explicit 'emergency_alert' notification.
HandleEmergencyStatusChange(service) ==
    Produced(<<>>, <<>>, <<create_emergency_alert>>,
             <<AlertNotification(create_emergency_alert), "emergency_alert">>)

\* A test that takes every closure for an emergency.
IsEmergencyChangeAnyClosure(service, new_status) ==
    new_status \in {EMERGENCY_ONLY, TEMPORARILY_CLOSED, CLOSED}

\* The test of _handle_status_change for an emergency-related change.
IsEmergencyChange(service, new_status) ==
    \/ new_status \in {EMERGENCY_ONLY, TEMPORARILY_CLOSED}
    \/ service.is_emergency_service /\ new_status = CLOSED

\* _handle_status_change.
HandleStatusChange(service, old_status, new_status) ==
    Both(Produced(<<StatusEvent(old_status, new_status)>>,
                  <<[action |-> "service_status_changed",
                     user |-> service.status_updated_by]>>,
                  <<>>, <<>>),
         Both(IF IsEmergencyChange(service, new_status)
                  THEN HandleEmergencyStatusChange(service)
                  ELSE Nothing,
              Produced(<<>>, <<>>, <<>>, <<"status_changed">>)))

\* An alert branch that looks at the new capacity only.
CapacityAlertsAtOrAbove(service, old_capacity) ==
    IF HasPercentage(service) /\ service.current_capacity # 0
    THEN IF service.current_capacity * 100 >= 90 * service.max_capacity
         THEN <<create_capacity_alert(service)>>
         ELSE <<>>
    ELSE <<>>

\* The alert branch of _handle_capacity_change.
CapacityAlerts(service, old_capacity) ==
    IF HasPercentage(service) /\ service.current_capacity # 0
    THEN IF /\ service.current_capacity * 100 >= 90 * service.max_capacity
            /\ old_capacity * 100 < 90 * service.max_capacity
         THEN <<create_capacity_alert(service)>>
         ELSE IF /\ service.current_capacity * 100 >= 100 * service.max_capacity
                 /\ old_capacity < service.max_capacity
              THEN <<Alert("capacity", 4, FALSE)>>
              ELSE <<>>
    ELSE <<>>

\* _handle_capacity_change.
HandleCapacityChange(service, old_capacity, new_capacity) ==
    LET alerts == CapacityAlerts(service, old_capacity)
    IN  Produced(<<CapacityEvent(old_capacity, new_capacity)>>, <<>>, alerts,
                 [i \in 1..Len(alerts) |-> AlertNotification(alerts[i])]
                     \o <<"capacity_changed">>)

\* _handle_service_updated, given the old_state found in the cache: the
\* instance in memory is compared with it, status first, then capacity.
HandleServiceUpdated(service, old_state) ==
    Both(IF old_state.current_status # service.current_status
             THEN HandleStatusChange(service, old_state.current_status,
                                     service.current_status)
             ELSE Nothing,
         IF old_state.current_capacity # service.current_capacity
             THEN HandleCapacityChange(service, old_state.current_capacity,
                                       service.current_capacity)
             ELSE Nothing)

AddProduced(o, made) ==
    [o EXCEPT !.events = @ \o made.events, !.audit = @ \o made.audit,
              !.alerts = @ \o made.alerts, !.notified = @ \o made.notified]

\* The statements of the handlers that write to the database, any of which
\* can raise: the status-update record, the audit entry, the alert.
FailurePoints == {"record", "audit", "alert"}

Failing(made, logger) == [made |-> made, errors |-> <<logger>>]

\* _handle_status_change when the statement `at` raises: what was created
\* before it stays, the except clause of the function that holds the
\* statement logs the error.  _handle_emergency_status_change has its own
\* except clause, so 'status_changed' is still sent after a failed alert.
HandleStatusChangeFailing(service, old_status, new_status, at) ==
    IF at = "record"
    THEN Failing(Nothing, "_handle_status_change")
    ELSE IF at = "audit"
    THEN Failing(Produced(<<StatusEvent(old_status, new_status)>>, <<>>, <<>>, <<>>),
                 "_handle_status_change")
    ELSE Failing(Produced(<<StatusEvent(old_status, new_status)>>,
                          <<[action |-> "service_status_changed",
                             user |-> service.status_updated_by]>>,
                          <<>>, <<"status_changed">>),
                 "_handle_emergency_status_change")

\* _handle_capacity_change when the statement `at` raises.
HandleCapacityChangeFailing(service, old_capacity, new_capacity, at) ==
    IF at = "record"
    THEN Failing(Nothing, "_handle_capacity_change")
    ELSE Failing(Produced(<<CapacityEvent(old_capacity, new_capacity)>>,
                          <<>>, <<>>, <<>>),
                 "_handle_capacity_change")

\* The handler `which` is called for this save and executes the statement.
FailureReached(service, old_state, which, at) ==
    IF which = "status"
    THEN /\ old_state.current_status # service.current_status
         /\ \/ at \in {"record", "audit"}
            \/ at = "alert" /\ IsEmergencyChange(service, service.current_status)
    ELSE /\ old_state.current_capacity # service.current_capacity
         /\ \/ at = "record"
            \/ at = "alert"
               /\ CapacityAlerts(service, old_state.current_capacity) # <<>>

\* _handle_service_updated when one statement of the handler `which`
\* raises: the handler catches it, the other handler runs as usual.
HandleServiceUpdatedFailing(service, old_state, which, at) ==
    LET st == IF old_state.current_status = service.current_status
              THEN Failing(Nothing, "")
              ELSE IF which = "status"
              THEN HandleStatusChangeFailing(service, old_state.current_status,
                                             service.current_status, at)
              ELSE Failing(HandleStatusChange(service, old_state.current_status,
                                              service.current_status), "")
        ca == IF old_state.current_capacity = service.current_capacity
              THEN Failing(Nothing, "")
              ELSE IF which = "capacity"
              THEN HandleCapacityChangeFailing(service, old_state.current_capacity,
                                               service.current_capacity, at)
              ELSE Failing(HandleCapacityChange(service, old_state.current_capacity,
                                                service.current_capacity), "")
    IN  [made |-> Both(st.made, ca.made),
         errors |-> SelectSeq(st.errors \o ca.errors, LAMBDA e : e # "")]

\* capture_service_changes: the old_state dictionary of a stored row.
OldState(row) ==
    [current_status |-> row.current_status,
     current_capacity |-> row.current_capacity,
     max_capacity |-> row.max_capacity]

\* The transitions an UPDATE commits: the stored values it replaces by
\* different ones, status first, then capacity.
Transitions(old, new) ==
    (IF old.current_status # new.current_status
        THEN <<StatusEvent(old.current_status, new.current_status)>> ELSE <<>>)
    \o
    (IF old.current_capacity # new.current_capacity
        THEN <<CapacityEvent(old.current_capacity, new.current_capacity)>> ELSE <<>>)

----------------------------------------------------------------------------
(* NotificationDispatcher                                                  *)

NumObservers == 3
ObserverIds == 1..NumObservers

\* The observers that do not implement handle_notification.
Handlerless == {1}
HasHandler(o) == o \notin Handlerless

\* NotificationDispatcher.__new__: no observer, no call in progress.
DispatcherInit ==
    /\ observers = <<>>
    /\ dpc = "idle"
    /\ idx = 1
    /\ subscribed = <<>>
    /\ calls = <<>>
    /\ logged = <<>>
    /\ escaped = FALSE

----------------------------------------------------------------------------
(* SmartSearchStrategy: the rows, the criteria and the string operations   *)

\* Text is a sequence of characters.
Space == " "
LowerChar(c) ==
    CASE c = "A" -> "a"
      [] c = "B" -> "b"
      [] c = "F" -> "f"
      [] OTHER -> c

\* str.lower().
lower(text) == [i \in 1..Len(text) |-> LowerChar(text[i])]

\* str.strip(): the text without its leading and trailing whitespace.
strip(text) ==
    LET inked == {i \in 1..Len(text) : text[i] # Space}
    IN  IF inked = {} THEN <<>>
        ELSE SubSeq(text, CHOOSE i \in inked : \A j \in inked : i <= j,
                          CHOOSE i \in inked : \A j \in inked : i >= j)

\* A test for the needle at the start of the text only.
istartswith(text, needle) ==
    /\ Len(needle) <= Len(text)
    /\ SubSeq(lower(text), 1, Len(needle)) = lower(needle)

\* The lookup __icontains: the needle occurs in the text, case ignored.
icontains(text, needle) ==
    \E i \in 0..(Len(text) - Len(needle)) :
        SubSeq(lower(text), i + 1, i + Len(needle)) = lower(needle)

\* Service._update_search_vector, for the fields the rows of the model have.
search_vector(row) == lower(<<row.name, Space>> \o row.description)

\* The names a service can have (name is not unique), in the order of the
\* database's collation.
NameOrder == <<"A", "B">>
Names == {NameOrder[i] : i \in 1..Len(NameOrder)}
NameRank(name) == CHOOSE i \in 1..Len(NameOrder) : NameOrder[i] = name

\* Kilometres between a row's location and the user's location.
Distances == {1, 3, 5, 10, 11}
CategoryTypes == {"healthcare", "food"}
\* quality_score, a decimal with two places, in hundredths.
QualityScores == {0, 150, 250, 350, 450}

\* The statuses of the rows: one for each availability score.
SearchStatuses == {OPEN, LIMITED, EMERGENCY_ONLY, FULL, CLOSED}

\* A row as the onboarding form leaves it, five kilometres away.
DefaultRow ==
    [name |-> "A", description |-> <<"f">>, distance |-> 5,
     category_type |-> "healthcare", is_emergency_service |-> FALSE,
     current_status |-> OPEN, quality_score |-> 0]

\* The rows of the runs: the default row with one field set otherwise, and
\* an emergency service with limited availability, under either name.
RowChoices ==
    LET varied ==
            {DefaultRow}
            \cup {[DefaultRow EXCEPT !.distance = k] : k \in Distances}
            \cup {[DefaultRow EXCEPT !.category_type = c] : c \in CategoryTypes}
            \cup {[DefaultRow EXCEPT !.is_emergency_service = TRUE]}
            \cup {[DefaultRow EXCEPT !.is_emergency_service = TRUE,
                                     !.current_status = LIMITED]}
            \cup {[DefaultRow EXCEPT !.current_status = st] : st \in SearchStatuses}
            \cup {[DefaultRow EXCEPT !.quality_score = q] : q \in QualityScores}
    IN  {[r EXCEPT !.name = n] : r \in varied, n \in Names}

MaxServices == 2

\* Keyword arguments of SmartSearchStrategy.search.  The user's location is
\* None or the one point the distances of the rows are taken from.
NoValue == "None"
Here == "here"
NoRadius == 0 - 1
QueryInputs == {<<>>, <<Space, "F", Space>>, <<"b">>}
RadiusInputs == {NoRadius, 0, 5}
CriteriaInputs ==
    {c \in [query : QueryInputs,
            user_location : {NoValue, Here},
            category_preference : {NoValue, "food"},
            max_distance_km : RadiusInputs,
            emergency_mode : BOOLEAN,
            called : {TRUE}] :
        c.user_location = NoValue => c.max_distance_km # 0}

NoCriteria == [query |-> <<>>, user_location |-> NoValue,
               category_preference |-> NoValue, max_distance_km |-> NoRadius,
               emergency_mode |-> FALSE, called |-> FALSE]

SearchInit ==
    /\ services = <<>>
    /\ criteria = NoCriteria
    /\ results = <<>>

----------------------------------------------------------------------------
(* SearchStrategyFactory and SearchContext: the names and the classes      *)

\* The classes registered when the module is loaded.
BuiltinStrategies ==
    [basic |-> "BasicTextSearchStrategy",
     geographic |-> "GeographicSearchStrategy",
     category |-> "CategorySearchStrategy",
     emergency |-> "EmergencySearchStrategy",
     availability |-> "AvailabilitySearchStrategy",
     smart |-> "SmartSearchStrategy"]

\* The names a caller passes: the six registered ones, one that
\* register_strategy can add and one that is never registered.
StrategyNameInputs == DOMAIN BuiltinStrategies \cup {"custom", "fuzzy"}

\* The classes a caller passes to register_strategy: a subclass of
\* SearchStrategy and a class that is not one.
ClassInputs == {"CustomStrategy", "dict"}
issubclass(strategy_class) == strategy_class = "CustomStrategy"

NoStrategy == "None"
NoCall == [op |-> "none", name |-> "", at |-> "idle", returned |-> NoStrategy,
           raised |-> "none", registry |-> <<>>, context |-> <<>>]

\* The module as loaded and SearchContext(), whose default strategy is
\* 'smart'.
StrategyInit ==
    /\ registry = [n \in StrategyNameInputs |->
                      IF n \in DOMAIN BuiltinStrategies THEN BuiltinStrategies[n]
                      ELSE NoStrategy]
    /\ context = [strategy |-> BuiltinStrategies["smart"], strategy_name |-> "smart"]
    /\ call = NoCall

----------------------------------------------------------------------------
(* The console's NotificationDispatcher: the notification queue            *)

NumRuns == 4
Runs == 1..NumRuns
MaxNotifications == 2

\* The notification_type values of the runs: one whose send can raise
\* (send_mail) and one whose send only logs.
NotificationTypeInputs == {"email", "in_app"}

\* A NotificationQueue row as queue_notification creates it.
NewNotification(notification_type) ==
    [notification_type |-> notification_type, status |-> "pending", retry_count |-> 0]

QueueInit ==
    /\ queue = <<>>
    /\ run = [r \in Runs |-> [at |-> "idle", fetched |-> <<>>]]
    /\ attempts = <<>>
    /\ deliveries = <<>>

----------------------------------------------------------------------------
(* The console singletons NotificationDispatcher and SettingsLoader        *)

NumCallers == 3
Callers == 1..NumCallers
NoCaller == 0

\* The class attributes _instance = None and _lock = threading.Lock().
SingletonInit ==
    /\ singleton = [instance |-> "None", lock |-> NoCaller,
                    allocated |-> 0, initialized |-> 0]
    /\ caller = [t \in Callers |-> [at |-> "idle", got |-> "nothing"]]

----------------------------------------------------------------------------
(* SettingsLoader and SystemSettings: the feature flags                    *)

\* The boolean fields of SystemSettings with their defaults.
SettingsDefaults ==
    [maintenance_mode |-> FALSE, registration_enabled |-> TRUE,
     service_submissions_enabled |-> TRUE, emergency_mode |-> FALSE,
     auto_approve_services |-> FALSE, auto_approve_comments |-> FALSE]

\* _reload_settings: the field each feature flag is loaded from.
FlagField ==
    [registration |-> "registration_enabled",
     service_submissions |-> "service_submissions_enabled",
     emergency_mode |-> "emergency_mode",
     auto_approve_services |-> "auto_approve_services",
     auto_approve_comments |-> "auto_approve_comments",
     maintenance_mode |-> "maintenance_mode"]

FeatureFlags == DOMAIN FlagField

\* The feature flags _reload_settings builds from the cached settings.
LoadedFlags(cached) == [f \in FeatureFlags |-> cached[FlagField[f]]]

\* SystemSettings.get_instance() creates the row with its defaults, and
\* SettingsLoader._initialize loads it.
LoaderInit ==
    /\ settings = SettingsDefaults
    /\ loader = [cached_settings |-> SettingsDefaults,
                 feature_flags |-> LoadedFlags(SettingsDefaults)]
    /\ toggled = [f \in FeatureFlags |-> "never"]

OtherInit == StrategyInit /\ QueueInit /\ SingletonInit /\ LoaderInit

----------------------------------------------------------------------------
(* Initial states                                                          *)

\* A service as the onboarding form leaves it: open, current_capacity 0,
\* nobody recorded as the last updater, max_capacity set or unset.
Init ==
    /\ \E m \in MaxCapacityChoices, e \in BOOLEAN :
          db = [current_status |-> OPEN, current_capacity |-> 0,
                max_capacity |-> m, is_emergency_service |-> e,
                status_updated_by |-> NoUser]
    /\ cache = <<>>
    /\ pc = [p \in Procs |-> "idle"]
    /\ req = [p \in Procs |-> NoReq]
    /\ inst = [p \in Procs |-> NoInstance]
    /\ snap = [p \in Procs |-> NoOldState]
    /\ kept = [p \in Procs |-> NoOld]
    /\ result = [p \in Procs |-> "none"]
    /\ out = [p \in Procs |-> NoOut]
    /\ commits = [p \in Procs |-> <<>>]
    /\ base = db
    /\ prev = NoStatus
    /\ DispatcherInit
    /\ SearchInit
    /\ OtherInit

\* The rows two overlapping requests start from: open or full, empty or at
\* max_capacity.
InitConc ==
    /\ \E m \in MaxCapacityChoices, e \in BOOLEAN, s \in {OPEN, FULL}, c \in {0, 100} :
          db = [current_status |-> s, current_capacity |-> c,
                max_capacity |-> m, is_emergency_service |-> e,
                status_updated_by |-> NoUser]
    /\ cache = <<>>
    /\ pc = [p \in Procs |-> "idle"]
    /\ req = [p \in Procs |-> NoReq]
    /\ inst = [p \in Procs |-> NoInstance]
    /\ snap = [p \in Procs |-> NoOldState]
    /\ kept = [p \in Procs |-> NoOld]
    /\ result = [p \in Procs |-> "none"]
    /\ out = [p \in Procs |-> NoOut]
    /\ commits = [p \in Procs |-> <<>>]
    /\ base = db
    /\ prev = NoStatus
    /\ DispatcherInit
    /\ SearchInit
    /\ OtherInit

----------------------------------------------------------------------------
(* Requests                                                                *)

\* A request ends: its response is recorded and its locals are dropped.
Respond(p, r) ==
    /\ result' = [result EXCEPT ![p] = r]
    /\ pc' = [pc EXCEPT ![p] = "done"]
    /\ inst' = [inst EXCEPT ![p] = NoInstance]
    /\ snap' = [snap EXCEPT ![p] = NoOldState]
    /\ kept' = [kept EXCEPT ![p] = NoOld]

\* UpdateServiceStatusAPIView.post up to service.save(): the lookup, the
\* check of the status and the assignment to the instance.
ViewStatusGet(p, pk, new_status) ==
    /\ pc[p] = "idle"
    /\ req' = [req EXCEPT ![p] = [op |-> "status", pk |-> pk,
                                  status |-> new_status, capacity |-> 0]]
    /\ IF ~Exists(pk)
          THEN Respond(p, "NotFound")
          ELSE IF new_status \notin ValidStatusList
                  THEN Respond(p, "InvalidStatus")
                  ELSE /\ kept' = [kept EXCEPT ![p].status = db.current_status]
                       /\ inst' = [inst EXCEPT ![p] =
                                     [db EXCEPT !.current_status = new_status]]
                       /\ pc' = [pc EXCEPT ![p] = "pre_read"]
                       /\ UNCHANGED <<result, snap>>
    /\ UNCHANGED <<db, cache, out, commits, base, prev, dvars, svars, kvars>>

\* The capacity check of UpdateCapacityAPIView.post.
CapacityRejected(new_capacity) == new_capacity < 0

\* UpdateCapacityAPIView.post up to service.save().
ViewCapacityGet(p, pk, new_capacity) ==
    /\ pc[p] = "idle"
    /\ req' = [req EXCEPT ![p] = [op |-> "capacity", pk |-> pk,
                                  status |-> NoStatus, capacity |-> new_capacity]]
    /\ IF ~Exists(pk)
          THEN Respond(p, "NotFound")
          ELSE IF CapacityRejected(new_capacity)
                  THEN Respond(p, "InvalidCapacity")
                  ELSE /\ kept' = [kept EXCEPT ![p].capacity = db.current_capacity]
                       /\ inst' = [inst EXCEPT ![p] =
                                     [db EXCEPT !.current_capacity = new_capacity]]
                       /\ pc' = [pc EXCEPT ![p] = "pre_read"]
                       /\ UNCHANGED <<result, snap>>
    /\ UNCHANGED <<db, cache, out, commits, base, prev, dvars, svars, kvars>>

\* The status Service.update_capacity leaves on the instance.
DerivedStatus(service) ==
    IF is_at_capacity(service) /\ service.current_status = OPEN
    THEN FULL
    ELSE IF ~is_at_capacity(service) /\ service.current_status = FULL
         THEN OPEN
         ELSE service.current_status

\* Service.update_capacity up to self.save(), on an instance loaded from
\* the stored row.
update_capacity(service, new_capacity, updated_by) ==
    LET s1 == [service EXCEPT !.current_capacity = new_capacity,
                              !.status_updated_by = updated_by]
    IN  [s1 EXCEPT !.current_status = DerivedStatus(s1)]

ModelCapacityGet(p, new_capacity) ==
    /\ pc[p] = "idle"
    /\ req' = [req EXCEPT ![p] = [op |-> "model_capacity", pk |-> ServiceId,
                                  status |-> NoStatus, capacity |-> new_capacity]]
    /\ inst' = [inst EXCEPT ![p] = update_capacity(db, new_capacity, Manager)]
    /\ pc' = [pc EXCEPT ![p] = "pre_read"]
    /\ UNCHANGED <<db, cache, snap, kept, result, out, commits, base, prev, dvars, svars, kvars>>

\* capture_service_changes, the query: old_service = Service.objects.get(pk).
PreSaveRead(p) ==
    /\ pc[p] = "pre_read"
    /\ snap' = [snap EXCEPT ![p] = OldState(db)]
    /\ pc' = [pc EXCEPT ![p] = "pre_set"]
    /\ UNCHANGED <<db, cache, req, inst, kept, result, out, commits, base, prev, dvars, svars, kvars>>

\* capture_service_changes, cache.set(cache_key, old_state, 300).
PreSaveSet(p) ==
    /\ pc[p] = "pre_set"
    /\ cache' = <<snap[p]>>
    /\ pc' = [pc EXCEPT ![p] = "write"]
    /\ UNCHANGED <<db, req, inst, snap, kept, result, out, commits, base, prev, dvars, svars, kvars>>

\* update_fields without 'current_capacity'.
SavedRowWithoutCapacity(p) ==
    IF req[p].op = "model_capacity"
    THEN [db EXCEPT !.status_updated_by = inst[p].status_updated_by,
                    !.current_status = inst[p].current_status]
    ELSE [inst[p] EXCEPT !.current_capacity = db.current_capacity]

\* The row an UPDATE writes: save() writes every field of the instance,
\* save(update_fields=...) of update_capacity only the four it names.
SavedRow(p) ==
    IF req[p].op = "model_capacity"
    THEN [db EXCEPT !.current_capacity = inst[p].current_capacity,
                    !.status_updated_by = inst[p].status_updated_by,
                    !.current_status = inst[p].current_status]
    ELSE inst[p]

\* The UPDATE of Model.save.  A rejected row raises: update_capacity lets
\* the error reach its caller, the views answer 500.
Write(p) ==
    /\ pc[p] = "write"
    /\ IF DbAccepts(SavedRow(p))
          THEN /\ db' = SavedRow(p)
               /\ commits' = [commits EXCEPT ![p] = @ \o Transitions(db, SavedRow(p))]
               /\ pc' = [pc EXCEPT ![p] = "post"]
               /\ UNCHANGED <<inst, snap, kept, result>>
          ELSE /\ Respond(p, IF req[p].op = "model_capacity"
                               THEN "IntegrityError" ELSE "ServerError")
               /\ UNCHANGED <<db, commits>>
    /\ UNCHANGED <<cache, req, out, base, prev, dvars, svars, kvars>>

\* Where a request continues after a post_save dispatch.
AfterDispatch(p) ==
    IF req[p].op = "model_capacity"
    THEN IF pc[p] \in {"post", "post_del"} THEN "post2" ELSE "return"
    ELSE "history"

\* handle_service_update -> _handle_service_updated up to cache.delete: the
\* cache.get and, when an old_state is found, the handlers of what changed.
\* update_capacity dispatches post_save a second time after save() returns.
PostSave(p) ==
    /\ pc[p] \in {"post", "post2"}
    /\ IF cache = <<>>
          THEN /\ pc' = [pc EXCEPT ![p] = AfterDispatch(p)]
               /\ UNCHANGED out
          ELSE /\ out' = [out EXCEPT ![p] =
                            AddProduced(@, HandleServiceUpdated(inst[p], cache[1]))]
               /\ pc' = [pc EXCEPT ![p] = IF pc[p] = "post" THEN "post_del"
                                                            ELSE "post2_del"]
    /\ UNCHANGED <<db, cache, req, inst, snap, kept, result, commits, base, prev, dvars, svars, kvars>>

\* _handle_service_updated, cache.delete(cache_key).
PostDelete(p) ==
    /\ pc[p] \in {"post_del", "post2_del"}
    /\ cache' = <<>>
    /\ pc' = [pc EXCEPT ![p] = AfterDispatch(p)]
    /\ UNCHANGED <<db, req, inst, snap, kept, result, out, commits, base, prev, dvars, svars, kvars>>

\* Service.update_capacity returns to its caller.
ModelCapacityReturn(p) ==
    /\ pc[p] = "return"
    /\ Respond(p, "success")
    /\ UNCHANGED <<db, cache, req, out, commits, base, prev, dvars, svars, kvars>>

\* UpdateServiceStatusAPIView.post after save(): the ServiceStatusHistory
\* row and the response.
ViewStatusFinish(p) ==
    /\ pc[p] = "history"
    /\ req[p].op = "status"
    /\ out' = [out EXCEPT ![p].history = @ \o
                 <<StatusEvent(kept[p].status, req[p].status)>>]
    /\ Respond(p, "success")
    /\ UNCHANGED <<db, cache, req, commits, base, prev, dvars, svars, kvars>>

\* The capacity-warning test of UpdateCapacityAPIView.post:
\* max_capacity and new_capacity >= max_capacity * 0.8.
NeedsCapacityWarning(service, new_capacity) ==
    service.max_capacity > 0 /\ new_capacity * 10 >= service.max_capacity * 8

\* UpdateCapacityAPIView.post after save(): the ServiceStatusHistory row,
\* the capacity warning to the manager and the response.
ViewCapacityFinish(p) ==
    /\ pc[p] = "history"
    /\ req[p].op = "capacity"
    /\ out' = [out EXCEPT ![p].history = @ \o
                 <<CapacityEvent(kept[p].capacity, req[p].capacity)>>,
                          ![p].warnings =
                 IF NeedsCapacityWarning(inst[p], req[p].capacity) THEN @ + 1 ELSE @]
    /\ Respond(p, "success")
    /\ UNCHANGED <<db, cache, req, commits, base, prev, dvars, svars, kvars>>

\* BulkServiceActionView.post, action change_status: one queryset UPDATE of
\* current_status and status_updated_by, then the audit entry of the bulk
\* action.  A queryset update sends no pre_save or post_save.
BulkChangeStatus(p, new_status) ==
    /\ pc[p] = "idle"
    /\ req' = [req EXCEPT ![p] = [op |-> "bulk_status", pk |-> ServiceId,
                                  status |-> new_status, capacity |-> 0]]
    /\ db' = [db EXCEPT !.current_status = new_status,
                        !.status_updated_by = Admin]
    /\ commits' = [commits EXCEPT ![p] = @ \o
                     Transitions(db, [db EXCEPT !.current_status = new_status])]
    /\ out' = [out EXCEPT ![p].audit = @ \o
                 <<[action |-> "bulk_service_change_status", user |-> Admin]>>]
    /\ Respond(p, "success")
    /\ UNCHANGED <<cache, base, prev, dvars, svars, kvars>>

\* Worker p has served an updateStatus request with success.
StatusWasSet(p) ==
    pc[p] = "done" /\ req[p].op = "status" /\ result[p] = "success"

\* Every response has been sent: the next requests start from the stored
\* row as it is now, and the records of the finished ones are set aside.
NextBatch ==
    /\ \A p \in Procs : pc[p] \in {"idle", "done"}
    /\ \E p \in Procs : pc[p] = "done"
    /\ pc' = [p \in Procs |-> "idle"]
    /\ req' = [p \in Procs |-> NoReq]
    /\ result' = [p \in Procs |-> "none"]
    /\ out' = [p \in Procs |-> NoOut]
    /\ commits' = [p \in Procs |-> <<>>]
    /\ base' = db
    /\ prev' = IF \E p \in Procs : StatusWasSet(p)
                  THEN req[CHOOSE p \in Procs : StatusWasSet(p)].status
                  ELSE NoStatus
    /\ UNCHANGED <<db, cache, inst, snap, kept, dvars, svars, kvars>>

\* No request is being served or waiting to be set aside.
Quiet == \A p \in Procs : pc[p] = "idle"

\* The steps of a request once it has begun.
Step(p) ==
    \/ PreSaveRead(p)
    \/ PreSaveSet(p)
    \/ Write(p)
    \/ PostSave(p)
    \/ PostDelete(p)
    \/ ModelCapacityReturn(p)
    \/ ViewStatusFinish(p)
    \/ ViewCapacityFinish(p)

\* Requests arrive one at a time, with every input.
Next ==
    \/ \E p \in Procs :
          \/ Quiet /\ \E pk \in PkInputs, s \in StatusInputs : ViewStatusGet(p, pk, s)
          \/ Quiet /\ \E pk \in PkInputs, c \in CapacityInputs : ViewCapacityGet(p, pk, c)
          \/ Quiet /\ \E c \in CapacityInputs : ModelCapacityGet(p, c)
          \/ Quiet /\ \E s \in ServiceStatus : BulkChangeStatus(p, s)
          \/ Step(p)
    \/ NextBatch

Spec == Init /\ [][Next]_vars

\* Two workers serve one request each, at the same time.
NextConc ==
    \E p \in Procs :
        \/ \E pk \in PkInputs, s \in ConcStatusInputs : ViewStatusGet(p, pk, s)
        \/ \E pk \in PkInputs, c \in ConcCapacityInputs : ViewCapacityGet(p, pk, c)
        \/ \E c \in ConcCapacityInputs : ModelCapacityGet(p, c)
        \/ BulkChangeStatus(p, LIMITED)
        \/ Step(p)

SpecConc == InitConc /\ [][NextConc]_vars


----------------------------------------------------------------------------
(* Failures of the database and of the cache around a save                 *)

\* The inputs of the runs in which a query or a cache operation can raise.
FailStatusInputs == {CLOSED, EMERGENCY_ONLY}
FailCapacityInputs == {50, 100}

\* An exception that leaves save(): the views answer 500, update_capacity
\* lets it reach its caller.
RaisedFromSave(p) ==
    IF req[p].op = "model_capacity" THEN "Exception" ELSE "ServerError"

\* capture_service_changes: the query or cache.set raises something other
\* than Service.DoesNotExist.  The receiver catches nothing else, the
\* exception leaves pre_save.send and save() before the UPDATE.
CaptureFails(p) ==
    /\ pc[p] \in {"pre_read", "pre_set"}
    /\ Respond(p, RaisedFromSave(p))
    /\ UNCHANGED <<db, cache, req, out, commits, base, prev, dvars, svars, kvars>>

\* _handle_service_updated: cache.get raises; handle_service_update catches
\* and logs it.
DispatchFails(p) ==
    /\ pc[p] \in {"post", "post2"}
    /\ out' = [out EXCEPT ![p].errors = Append(@, "handle_service_update")]
    /\ pc' = [pc EXCEPT ![p] = AfterDispatch(p)]
    /\ UNCHANGED <<db, cache, req, inst, snap, kept, result, commits, base, prev, dvars, svars, kvars>>

\* _handle_service_updated with a statement of one handler raising.
HandlerFails(p, which, at) ==
    /\ pc[p] \in {"post", "post2"}
    /\ cache # <<>>
    /\ FailureReached(inst[p], cache[1], which, at)
    /\ LET r == HandleServiceUpdatedFailing(inst[p], cache[1], which, at)
       IN  out' = [out EXCEPT ![p] =
                     [AddProduced(@, r.made) EXCEPT !.errors = @ \o r.errors]]
    /\ pc' = [pc EXCEPT ![p] = IF pc[p] = "post" THEN "post_del" ELSE "post2_del"]
    /\ UNCHANGED <<db, cache, req, inst, snap, kept, result, commits, base, prev, dvars, svars, kvars>>

\* _handle_service_updated: cache.delete raises; handle_service_update
\* catches and logs it, the entry stays in the cache.
CleanupFails(p) ==
    /\ pc[p] \in {"post_del", "post2_del"}
    /\ out' = [out EXCEPT ![p].errors = Append(@, "handle_service_update")]
    /\ pc' = [pc EXCEPT ![p] = AfterDispatch(p)]
    /\ UNCHANGED <<db, cache, req, inst, snap, kept, result, commits, base, prev, dvars, svars, kvars>>

\* The views after save(): ServiceStatusHistory.objects.create raises and
\* the view answers 500.
HistoryFails(p) ==
    /\ pc[p] = "history"
    /\ Respond(p, "ServerError")
    /\ UNCHANGED <<db, cache, req, out, commits, base, prev, dvars, svars, kvars>>

NextFail ==
    \/ \E p \in Procs :
          \/ Quiet /\ \E s \in FailStatusInputs : ViewStatusGet(p, ServiceId, s)
          \/ Quiet /\ \E c \in FailCapacityInputs : ViewCapacityGet(p, ServiceId, c)
          \/ Quiet /\ \E c \in FailCapacityInputs : ModelCapacityGet(p, c)
          \/ Step(p)
          \/ CaptureFails(p)
          \/ DispatchFails(p)
          \/ \E which \in {"status", "capacity"}, at \in FailurePoints :
                HandlerFails(p, which, at)
          \/ CleanupFails(p)
          \/ HistoryFails(p)
    \/ NextBatch

SpecFail == Init /\ [][NextFail]_vars

----------------------------------------------------------------------------
(* NotificationDispatcher: subscribe, unsubscribe, notify_observers        *)

Contains(seq, o) == \E i \in 1..Len(seq) : seq[i] = o

Remove(seq, o) == SelectSeq(seq, LAMBDA x : x # o)

\* NotificationDispatcher.subscribe, between two calls of notify_observers.
subscribe(o) ==
    /\ dpc # "iterating"
    /\ ~Contains(observers, o)
    /\ observers' = Append(observers, o)
    /\ UNCHANGED <<dpc, idx, subscribed, calls, logged, escaped, evars, svars, kvars>>

\* NotificationDispatcher.unsubscribe, between two calls of notify_observers.
unsubscribe(o) ==
    /\ dpc # "iterating"
    /\ Contains(observers, o)
    /\ observers' = Remove(observers, o)
    /\ UNCHANGED <<dpc, idx, subscribed, calls, logged, escaped, evars, svars, kvars>>

\* notify_observers is called: the for loop takes an iterator on _observers.
NotifyBegin ==
    /\ dpc # "iterating"
    /\ dpc' = "iterating"
    /\ idx' = 1
    /\ subscribed' = observers
    /\ calls' = <<>>
    /\ logged' = <<>>
    /\ escaped' = FALSE
    /\ UNCHANGED <<observers, evars, svars, kvars>>

\* One turn of the loop with every exception of the body let through.
NotifyNextUnguarded ==
    /\ dpc = "iterating"
    /\ idx <= Len(observers)
    /\ LET o == observers[idx]
       IN  IF HasHandler(o)
           THEN /\ calls' = Append(calls, o)
                /\ \/ /\ idx' = idx + 1
                      /\ UNCHANGED <<dpc, logged, escaped>>
                   \/ /\ escaped' = TRUE
                      /\ dpc' = "returned"
                      /\ UNCHANGED <<idx, logged>>
           ELSE /\ logged' = Append(logged, [observer |-> o, level |-> "warning"])
                /\ idx' = idx + 1
                /\ UNCHANGED <<dpc, calls, escaped>>
    /\ UNCHANGED <<observers, subscribed, evars, svars, kvars>>

\* One turn of the loop of notify_observers: the next observer's
\* handle_notification is called and returns or raises, and what it raises
\* is caught and logged; an observer without the method is logged as a
\* warning.
NotifyNext ==
    /\ dpc = "iterating"
    /\ idx <= Len(observers)
    /\ LET o == observers[idx]
       IN  IF HasHandler(o)
           THEN /\ calls' = Append(calls, o)
                /\ \/ UNCHANGED logged
                   \/ logged' = Append(logged, [observer |-> o, level |-> "error"])
           ELSE /\ logged' = Append(logged, [observer |-> o, level |-> "warning"])
                /\ UNCHANGED calls
    /\ idx' = idx + 1
    /\ UNCHANGED <<observers, dpc, subscribed, escaped, evars, svars, kvars>>

\* The iterator is exhausted: notify_observers returns.
NotifyEnd ==
    /\ dpc = "iterating"
    /\ idx > Len(observers)
    /\ dpc' = "returned"
    /\ UNCHANGED <<observers, idx, subscribed, calls, logged, escaped, evars, svars, kvars>>

NextDispatch ==
    \/ \E o \in ObserverIds : subscribe(o)
    \/ \E o \in ObserverIds : unsubscribe(o)
    \/ NotifyBegin
    \/ NotifyNext
    \/ NotifyEnd

SpecDispatch == Init /\ [][NextDispatch]_vars

\* One turn of the loop in which the handler called, before it returns,
\* calls unsubscribe(x) on the dispatcher: list.remove on the list the for
\* loop is iterating over, whose iterator keeps its index; unsubscribe
\* logs the removal at debug level.
NotifyNextUnsubscribing(x) ==
    /\ dpc = "iterating"
    /\ idx <= Len(observers)
    /\ HasHandler(observers[idx])
    /\ Contains(observers, x)
    /\ calls' = Append(calls, observers[idx])
    /\ observers' = Remove(observers, x)
    /\ logged' = Append(logged, [observer |-> x, level |-> "debug"])
    /\ idx' = idx + 1
    /\ UNCHANGED <<dpc, subscribed, escaped, evars, svars, kvars>>

\* One turn of the loop in which the handler called calls subscribe(x):
\* list.append on the list being iterated over.
NotifyNextSubscribing(x) ==
    /\ dpc = "iterating"
    /\ idx <= Len(observers)
    /\ HasHandler(observers[idx])
    /\ ~Contains(observers, x)
    /\ calls' = Append(calls, observers[idx])
    /\ observers' = Append(observers, x)
    /\ logged' = Append(logged, [observer |-> x, level |-> "debug"])
    /\ idx' = idx + 1
    /\ UNCHANGED <<dpc, subscribed, escaped, evars, svars, kvars>>

\* The dispatcher with handlers that subscribe and unsubscribe.
NextReentrant ==
    \/ NextDispatch
    \/ \E x \in ObserverIds : NotifyNextUnsubscribing(x)
    \/ \E x \in ObserverIds : NotifyNextSubscribing(x)

SpecReentrant == Init /\ [][NextReentrant]_vars

----------------------------------------------------------------------------
(* SmartSearchStrategy.search                                              *)

Ids == 1..Len(services)

\* The filters of search, each applied to what the one before has left.
\* An argument takes part when Python's truth test of it passes: a query
\* that is not '', a location and a radius that is neither None nor 0, a
\* category that is not None.
Filtered(c) ==
    LET query_lower == strip(lower(c.query))
        by_text == IF c.query # <<>>
                   THEN {i \in Ids : icontains(search_vector(services[i]), query_lower)}
                   ELSE Ids
        by_distance == IF c.user_location # NoValue
                          /\ c.max_distance_km # NoRadius /\ c.max_distance_km # 0
                       THEN {i \in by_text : services[i].distance <= c.max_distance_km}
                       ELSE by_text
        by_emergency == IF c.emergency_mode
                        THEN {i \in by_distance : services[i].is_emergency_service}
                        ELSE by_distance
    IN  IF c.category_preference # NoValue
        THEN {i \in by_emergency : services[i].category_type = c.category_preference}
        ELSE by_emergency

text_score(c) == IF c.query # <<>> THEN 2 ELSE 1

distance_score(row, c) ==
    IF c.user_location # NoValue
    THEN IF row.distance <= 1 THEN 5
         ELSE IF row.distance <= 3 THEN 4
         ELSE IF row.distance <= 5 THEN 3
         ELSE IF row.distance <= 10 THEN 2
         ELSE 1
    ELSE 3

availability_score(row) ==
    IF row.current_status = OPEN THEN 5
    ELSE IF row.current_status = LIMITED THEN 4
    ELSE IF row.current_status = EMERGENCY_ONLY THEN 3
    ELSE IF row.current_status = FULL THEN 2
    ELSE 1

quality_score_int(row) ==
    IF row.quality_score >= 450 THEN 5
    ELSE IF row.quality_score >= 350 THEN 4
    ELSE IF row.quality_score >= 250 THEN 3
    ELSE IF row.quality_score >= 150 THEN 2
    ELSE 1

\* A boost that does not look at the mode of the search.
EmergencyBoostAnyMode(row, c) == IF row.is_emergency_service THEN 3 ELSE 0

emergency_boost(row, c) ==
    IF c.emergency_mode
    THEN IF row.is_emergency_service THEN 3 ELSE 0
    ELSE 0

\* composite_score, in hundredths: the weights are 0.2, 0.25, 0.25, 0.2, 0.1.
composite_score(t, d, a, q, e) == 20 * t + 25 * d + 25 * a + 20 * q + 10 * e

\* A row of the result with its annotations.
Annotated(i, c) ==
    LET row == services[i]
    IN  [id |-> i, name |-> row.name,
         text_score |-> text_score(c),
         distance_score |-> distance_score(row, c),
         availability_score |-> availability_score(row),
         quality_score_int |-> quality_score_int(row),
         emergency_boost |-> emergency_boost(row, c),
         composite_score |->
             composite_score(text_score(c), distance_score(row, c),
                             availability_score(row), quality_score_int(row),
                             emergency_boost(row, c))]

\* order_by('-composite_score', 'name'): a may come before b.
MayPrecede(a, b) ==
    \/ a.composite_score > b.composite_score
    \/ a.composite_score = b.composite_score /\ NameRank(a.name) <= NameRank(b.name)

\* The orders the database may return the rows in: rows equal on both keys
\* come in an order that ORDER BY leaves to the database.
Orders(ids, c) ==
    {seq \in [1..Cardinality(ids) -> {Annotated(i, c) : i \in ids}] :
        /\ \A i, j \in 1..Cardinality(ids) : i # j => seq[i].id # seq[j].id
        /\ \A i, j \in 1..Cardinality(ids) : i < j => MayPrecede(seq[i], seq[j])}

\* A Service is saved: a new state of the table.
AddService(row) ==
    /\ Len(services) < MaxServices
    /\ services' = Append(services, row)
    /\ criteria' = NoCriteria
    /\ results' = <<>>
    /\ UNCHANGED <<evars, dvars, kvars>>

\* SmartSearchStrategy.search on the whole table, evaluated; one search is
\* followed for each state of the table.
SmartSearch(c) ==
    /\ ~criteria.called
    /\ criteria' = c
    /\ results' \in Orders(Filtered(c), c)
    /\ UNCHANGED <<services, evars, dvars, kvars>>

NextSearch ==
    \/ \E row \in RowChoices : AddService(row)
    \/ \E c \in CriteriaInputs : SmartSearch(c)

\* The searches start from an empty table; the service of the other parts
\* of the model stays as it is.
InitSearch == Init /\ db.max_capacity = 0 /\ ~db.is_emergency_service

SpecSearch == InitSearch /\ [][NextSearch]_vars

----------------------------------------------------------------------------
(* SearchStrategyFactory.create_strategy, register_strategy and            *)
(* SearchContext.set_strategy                                              *)

\* A membership test that every name passes.
AnyNameRegistered(name) == name \in StrategyNameInputs

\* `strategy_name not in cls._strategies`.
Registered(name) == registry[name] # NoStrategy

\* No call is in progress.
CallOver == call.at \in {"idle", "done"}

Begin(op, name) ==
    [op |-> op, name |-> name, at |-> "done", returned |-> NoStrategy,
     raised |-> "none", registry |-> registry, context |-> context]

\* SearchStrategyFactory.create_strategy(name), called by itself.
create_strategy(name) ==
    /\ CallOver
    /\ call' = IF Registered(name)
               THEN [Begin("create_strategy", name) EXCEPT !.returned = registry[name]]
               ELSE [Begin("create_strategy", name) EXCEPT !.raised = "ValueError"]
    /\ UNCHANGED <<registry, context, evars, dvars, svars, qvars, nvars, lvars>>

\* SearchStrategyFactory.register_strategy(name, strategy_class).
register_strategy(name, strategy_class) ==
    /\ CallOver
    /\ IF issubclass(strategy_class)
       THEN /\ registry' = [registry EXCEPT ![name] = strategy_class]
            /\ call' = Begin("register_strategy", name)
       ELSE /\ call' = [Begin("register_strategy", name) EXCEPT !.raised = "ValueError"]
            /\ UNCHANGED registry
    /\ UNCHANGED <<context, evars, dvars, svars, qvars, nvars, lvars>>

\* SearchContext.set_strategy(name), its first statement up to the return
\* of create_strategy: what it raises leaves set_strategy.
SetStrategyCreate(name) ==
    /\ CallOver
    /\ call' = IF Registered(name)
               THEN [Begin("set_strategy", name) EXCEPT !.returned = registry[name],
                                                        !.at = "assign"]
               ELSE [Begin("set_strategy", name) EXCEPT !.raised = "ValueError"]
    /\ UNCHANGED <<registry, context, evars, dvars, svars, qvars, nvars, lvars>>

\* self._strategy = <the instance create_strategy returned>.
SetStrategyAssign ==
    /\ call.at = "assign"
    /\ context' = [context EXCEPT !.strategy = call.returned]
    /\ call' = [call EXCEPT !.at = "name"]
    /\ UNCHANGED <<registry, evars, dvars, svars, qvars, nvars, lvars>>

\* self._strategy_name = strategy_name.
SetStrategyName ==
    /\ call.at = "name"
    /\ context' = [context EXCEPT !.strategy_name = call.name]
    /\ call' = [call EXCEPT !.at = "done"]
    /\ UNCHANGED <<registry, evars, dvars, svars, qvars, nvars, lvars>>

NextStrategy ==
    \/ \E name \in StrategyNameInputs : create_strategy(name)
    \/ \E strategy_class \in ClassInputs : register_strategy("custom", strategy_class)
    \/ \E name \in StrategyNameInputs : SetStrategyCreate(name)
    \/ SetStrategyAssign
    \/ SetStrategyName

SpecStrategy == Init /\ [][NextStrategy]_vars

----------------------------------------------------------------------------
(* NotificationDispatcher.queue_notification and process_notification_queue *)

\* queue_notification for one recipient: NotificationQueue.objects.create.
queue_notification(notification_type) ==
    /\ Len(queue) < MaxNotifications
    /\ queue' = Append(queue, NewNotification(notification_type))
    /\ attempts' = Append(attempts, 0)
    /\ deliveries' = Append(deliveries, 0)
    /\ UNCHANGED <<run, evars, dvars, svars, fvars, nvars, lvars>>

\* The ids of the sequence, the latest first (ordering = ['-created_at']).
RECURSIVE LatestFirst(_)
LatestFirst(ids) ==
    IF ids = {} THEN <<>>
    ELSE LET last == CHOOSE i \in ids : \A j \in ids : j <= i
         IN  <<last>> \o LatestFirst(ids \ {last})

\* The for statement of process_notification_queue evaluates the queryset:
\* one SELECT of the rows with status 'pending' (scheduled_for is the time
\* of creation), each loaded into an instance of its own.
SelectPending(r) ==
    /\ run[r].at = "idle"
    /\ LET ids == LatestFirst({i \in 1..Len(queue) : queue[i].status = "pending"})
       IN  run' = [run EXCEPT ![r] =
                     [at |-> "loop",
                      fetched |-> [k \in 1..Len(ids) |->
                                     [id |-> ids[k],
                                      retry_count |-> queue[ids[k]].retry_count]]]]
    /\ UNCHANGED <<queue, attempts, deliveries, evars, dvars, svars, fvars, nvars, lvars>>

\* The send of a notification can raise: send_mail can, the other senders
\* only write to the log.
CanFail(notification_type) == notification_type = "email"

\* One turn of the loop: the send, then the save of the outcome with
\* update_fields, 'sent' when the send returned, 'failed' and the
\* instance's retry_count plus one when it raised.
ProcessNotification(r, raised) ==
    /\ run[r].at = "loop"
    /\ run[r].fetched # <<>>
    /\ LET notification == Head(run[r].fetched)
           n == notification.id
       IN  /\ raised => CanFail(queue[n].notification_type)
           /\ attempts' = [attempts EXCEPT ![n] = @ + 1]
           /\ deliveries' = [deliveries EXCEPT ![n] = IF raised THEN @ ELSE @ + 1]
           /\ queue' = [queue EXCEPT ![n] =
                          IF raised
                          THEN [@ EXCEPT !.status = "failed",
                                         !.retry_count = notification.retry_count + 1]
                          ELSE [@ EXCEPT !.status = "sent"]]
    /\ run' = [run EXCEPT ![r].fetched = Tail(@)]
    /\ UNCHANGED <<evars, dvars, svars, fvars, nvars, lvars>>

\* The loop is over: process_notification_queue returns.
ProcessReturn(r) ==
    /\ run[r].at = "loop"
    /\ run[r].fetched = <<>>
    /\ run' = [run EXCEPT ![r].at = "idle"]
    /\ UNCHANGED <<queue, attempts, deliveries, evars, dvars, svars, fvars, nvars, lvars>>

NextQueue ==
    \/ \E t \in NotificationTypeInputs : queue_notification(t)
    \/ \E r \in Runs :
          \/ SelectPending(r)
          \/ \E raised \in BOOLEAN : ProcessNotification(r, raised)
          \/ ProcessReturn(r)

SpecQueue == Init /\ [][NextQueue]_vars

----------------------------------------------------------------------------
(* NotificationDispatcher.__new__ and SettingsLoader.__new__ (the same     *)
(* statements), one statement a step                                       *)

Goto(t, at) == caller' = [caller EXCEPT ![t].at = at]

Others == <<evars, dvars, svars, fvars, qvars, lvars>>

\* `if cls._instance is None:` outside the lock.
OuterCheck(t) ==
    /\ caller[t].at = "idle"
    /\ Goto(t, IF singleton.instance = "None" THEN "acquire" ELSE "return")
    /\ UNCHANGED <<singleton, Others>>

\* `with cls._lock:` is entered.
Acquire(t) ==
    /\ caller[t].at = "acquire"
    /\ singleton.lock = NoCaller
    /\ singleton' = [singleton EXCEPT !.lock = t]
    /\ Goto(t, "inner")
    /\ UNCHANGED Others

\* `if cls._instance is None:` under the lock.
InnerCheck(t) ==
    /\ caller[t].at = "inner"
    /\ Goto(t, IF singleton.instance = "None" THEN "allocate" ELSE "release")
    /\ UNCHANGED <<singleton, Others>>

\* `cls._instance = super().__new__(cls)`.
Allocate(t) ==
    /\ caller[t].at = "allocate"
    /\ singleton' = [singleton EXCEPT !.instance = "bare", !.allocated = @ + 1]
    /\ Goto(t, "initialize")
    /\ UNCHANGED Others

\* `cls._instance._initialize()`: the instance gets its notification
\* queues or its cached settings.
Initialize(t) ==
    /\ caller[t].at = "initialize"
    /\ singleton' = [singleton EXCEPT !.instance = "initialized", !.initialized = @ + 1]
    /\ Goto(t, "release")
    /\ UNCHANGED Others

\* The with block is left.
Release(t) ==
    /\ caller[t].at = "release"
    /\ singleton' = [singleton EXCEPT !.lock = NoCaller]
    /\ Goto(t, "return")
    /\ UNCHANGED Others

\* `return cls._instance`: the caller has the instance as it is now.
ReturnInstance(t) ==
    /\ caller[t].at = "return"
    /\ caller' = [caller EXCEPT ![t] = [at |-> "done", got |-> singleton.instance]]
    /\ UNCHANGED <<singleton, Others>>

NextSingleton ==
    \E t \in Callers :
        \/ OuterCheck(t)
        \/ Acquire(t)
        \/ InnerCheck(t)
        \/ Allocate(t)
        \/ Initialize(t)
        \/ Release(t)
        \/ ReturnInstance(t)

SpecSingleton == Init /\ [][NextSingleton]_vars

----------------------------------------------------------------------------
(* SettingsLoader.toggle_feature_flag, update_setting, _reload_settings    *)

\* toggle_feature_flag: setting_key = f"{feature_name}_enabled".
setting_key(feature_name) == feature_name \o "_enabled"

\* update_setting: hasattr(settings_instance, key).
hasattr(key) == key \in DOMAIN SettingsDefaults

\* toggle_feature_flag(feature_name): update_setting saves the row and the
\* cached setting when the key is a field of SystemSettings and only logs
\* a warning otherwise; the flag of the loader is set in both cases and
\* the new state returned.
toggle_feature_flag(feature_name) ==
    LET new_state == ~loader.feature_flags[feature_name]
        key == setting_key(feature_name)
    IN  /\ IF hasattr(key)
              THEN /\ settings' = [settings EXCEPT ![key] = new_state]
                   /\ loader' = [loader EXCEPT
                                   !.cached_settings[key] = new_state,
                                   !.feature_flags[feature_name] = new_state]
              ELSE /\ loader' = [loader EXCEPT
                                   !.feature_flags[feature_name] = new_state]
                   /\ UNCHANGED settings
        /\ toggled' = [toggled EXCEPT ![feature_name] =
                          IF new_state THEN "on" ELSE "off"]
        /\ UNCHANGED <<evars, dvars, svars, fvars, qvars, nvars>>

\* reload_configuration, and the refresh get_system_setting makes after
\* five minutes: _reload_settings.
reload_configuration ==
    /\ loader' = [cached_settings |-> settings,
                  feature_flags |-> LoadedFlags(settings)]
    /\ UNCHANGED <<settings, toggled, evars, dvars, svars, fvars, qvars, nvars>>

NextLoader ==
    \/ \E f \in FeatureFlags : toggle_feature_flag(f)
    \/ reload_configuration

SpecLoader == Init /\ [][NextLoader]_vars

----------------------------------------------------------------------------
(* Properties                                                              *)

Done(p) == pc[p] = "done"
Succeeded(p) == Done(p) /\ result[p] = "success"
AllDone == \A p \in Procs : Done(p)
Settled == \A p \in Procs : pc[p] \in {"idle", "done"}

IsUpdateCapacity(r) == r.op \in {"capacity", "model_capacity"}
IsUpdateStatus(r) == r.op = "status"

\* The row a request leaves when it is the only one running on the row.
SerialEffect(r, row) ==
    IF r.op = "status" /\ r.pk = ServiceId /\ r.status \in ServiceStatus
    THEN [row EXCEPT !.current_status = r.status]
    ELSE IF r.op = "capacity" /\ r.pk = ServiceId /\ r.capacity >= 0
    THEN [row EXCEPT !.current_capacity = r.capacity]
    ELSE IF r.op = "model_capacity" /\ r.capacity >= 0
    THEN update_capacity(row, r.capacity, Manager)
    ELSE IF r.op = "bulk_status"
    THEN [row EXCEPT !.current_status = r.status, !.status_updated_by = Admin]
    ELSE row

CountOf(seq, type) == Cardinality({i \in 1..Len(seq) : seq[i].change_type = type})

\* C1: when a capacity update overlaps another capacity update or a status
\* change of the same service, the stored row after both have succeeded is
\* the row one of the two serial orders leaves: neither committed change is
\* overwritten from the other's stale copy.
C1_Serializable ==
    (/\ AllDone
     /\ \A p \in Procs : Succeeded(p) /\ (IsUpdateCapacity(req[p]) \/ IsUpdateStatus(req[p]))
     /\ \E p \in Procs : IsUpdateCapacity(req[p]))
    => \/ db = SerialEffect(req[2], SerialEffect(req[1], base))
       \/ db = SerialEffect(req[1], SerialEffect(req[2], base))

\* The status the capacity rule gives: Full from Open at or above a set
\* max_capacity, Open from Full below it, otherwise unchanged.
RuleStatus(s, new_capacity, max_capacity) ==
    IF max_capacity > 0 /\ new_capacity >= max_capacity /\ s = OPEN
    THEN FULL
    ELSE IF max_capacity > 0 /\ new_capacity < max_capacity /\ s = FULL
         THEN OPEN
         ELSE s

\* C2: after a successful capacity update, on either entry point, the
\* stored status is the one the capacity rule gives for the status before,
\* the new capacity and max_capacity.
C2_DerivedStatus ==
    \A p \in Procs :
        (Succeeded(p) /\ IsUpdateCapacity(req[p]))
        => db.current_status =
               RuleStatus(base.current_status, req[p].capacity, base.max_capacity)

\* C3: once the requests have been answered, each of them has created
\* exactly one status-update record for every status or capacity transition
\* its UPDATE committed, and no other; this covers overlapping saves and the
\* bulk status change.
C3_OneEventPerTransition ==
    Settled => \A p \in Procs : out[p].events = commits[p]

\* C4: a successful capacity update creates exactly one capacity record,
\* and exactly one status record if and only if the stored status changed,
\* whatever the new capacity, the current one included.
C4_CapacityEvents ==
    \A p \in Procs :
        (Succeeded(p) /\ IsUpdateCapacity(req[p]))
        => /\ CountOf(out[p].events, "capacity") = 1
           /\ CountOf(out[p].events, "status") =
                  (IF db.current_status # base.current_status THEN 1 ELSE 0)

\* Two overlapping capacity updates, of 50 and of 70, on a service that had
\* current_capacity 0 and max_capacity 100, have both been answered.
RaceOf50And70 ==
    /\ base.current_capacity = 0
    /\ base.max_capacity = 100
    /\ AllDone
    /\ \A p \in Procs : Succeeded(p) /\ IsUpdateCapacity(req[p])
    /\ {req[p].capacity : p \in Procs} = {50, 70}

\* C5: two overlapping capacity updates of 50 and 70 from 0 of 100 leave
\* the stored current_capacity at 50 or at 70, under every interleaving and
\* on either entry point.
C5_FinalCapacity ==
    RaceOf50And70 => db.current_capacity \in {50, 70}

\* C5 witness: the race has been run and the update of 50, the one of
\* worker 1, was the last to be written over by the other.
C5_Witness ==
    /\ RaceOf50And70
    /\ req[1].capacity = 50
    /\ db.current_capacity = 70
    /\ Len(commits[1]) > 0 /\ Len(commits[2]) > 0

NegativeCapacityRequest(p) ==
    IsUpdateCapacity(req[p]) /\ req[p].pk = ServiceId /\ req[p].capacity < 0

UnknownServiceRequest(p) ==
    req[p].op \in {"status", "capacity"} /\ req[p].pk # ServiceId

\* C7: a status or capacity request for a pk that is no service of the
\* caller is answered NotFound at once; the step that receives it leaves
\* the stored row and the cache as they were, and the request commits
\* nothing and creates no event, history row, alert or notification.
C7_NotFound ==
    /\ [](\A p \in Procs :
            UnknownServiceRequest(p)
            => /\ Done(p) /\ result[p] = "NotFound"
               /\ commits[p] = <<>>
               /\ out[p] = NoOut)
    /\ [][\A p \in Procs :
            (req[p] = NoReq /\ UnknownServiceRequest(p)')
            => db' = db /\ cache' = cache]_vars

\* C7 witness: a status request and a capacity request for an unknown pk
\* have been answered while the row had been changed by nobody.
C7_Witness ==
    /\ AllDone
    /\ \A p \in Procs : UnknownServiceRequest(p) /\ result[p] = "NotFound"
    /\ {req[p].op : p \in Procs} = {"status", "capacity"}
    /\ db = base

\* C8: a status request with a value outside the six statuses is answered
\* InvalidStatus and leaves the row as it was; with any of the six, from
\* any stored status, it succeeds and the stored status read right after
\* the response is the requested one.
C8_UpdateStatus ==
    \A p \in Procs :
        (IsUpdateStatus(req[p]) /\ req[p].pk = ServiceId)
        => /\ req[p].status \notin ServiceStatus
              => /\ Done(p) /\ result[p] = "InvalidStatus"
                 /\ db = base /\ commits[p] = <<>> /\ out[p] = NoOut
           /\ (req[p].status \in ServiceStatus /\ Done(p))
              => result[p] = "success" /\ db.current_status = req[p].status

\* C8 witness: a full service has been set to limited, and read back.
C8_Witness ==
    \E p \in Procs :
        /\ Succeeded(p) /\ IsUpdateStatus(req[p])
        /\ base.current_status = FULL
        /\ req[p].status = LIMITED
        /\ db.current_status = LIMITED

\* C9: a status request that repeats the status set by the request just
\* before it leaves the row as it was and creates nothing: no status-update
\* record, no history row, no alert, no audit entry, no notification.
C9_Idempotent ==
    \A p \in Procs :
        (Succeeded(p) /\ IsUpdateStatus(req[p]) /\ prev = req[p].status)
        => db = base /\ out[p] = NoOut

\* C10: when notify_observers has returned, it has called the handler of
\* every observer subscribed at the call exactly once and in subscription
\* order, whichever of them raised; each raise was logged as an error, each
\* observer without a handler as a warning, and nothing was raised to the
\* publisher.
C10_NotifyAll ==
    dpc = "returned"
    => /\ calls = SelectSeq(subscribed, HasHandler)
       /\ ~escaped
       /\ \A i \in 1..Len(logged) :
             /\ Contains(subscribed, logged[i].observer)
             /\ logged[i].level = "warning" <=> ~HasHandler(logged[i].observer)
       /\ \A o \in Handlerless :
             Contains(subscribed, o)
             => \E i \in 1..Len(logged) : logged[i] = [observer |-> o, level |-> "warning"]

\* C10 witness: of three observers, the first has no handler and the second
\* raised, and the third was still called before the return.
C10_Witness ==
    /\ dpc = "returned"
    /\ Len(subscribed) = 3
    /\ ~HasHandler(subscribed[1])
    /\ logged = <<[observer |-> subscribed[1], level |-> "warning"],
                  [observer |-> subscribed[2], level |-> "error"]>>
    /\ calls = <<subscribed[2], subscribed[3]>>

\* The request of worker p is a valid status or capacity update of the
\* service.
ValidUpdate(p) ==
    \/ IsUpdateStatus(req[p]) /\ req[p].pk = ServiceId /\ req[p].status \in ServiceStatus
    \/ IsUpdateCapacity(req[p]) /\ req[p].pk = ServiceId /\ req[p].capacity >= 0

\* C11: whatever raises around the save of a valid status or capacity
\* update (the capture of the old state, the detection of the change, the
\* creation of a record or an alert, the clean-up), the update is written:
\* once the request is over, the stored row is the one the update leaves.
C11_CommittedDespiteFailure ==
    \A p \in Procs :
        (Done(p) /\ ValidUpdate(p)) => db = SerialEffect(req[p], base)

\* Worker p has served a capacity update with success, alone on the row.
CapacityUpdated(p) == Succeeded(p) /\ IsUpdateCapacity(req[p])

\* The capacity c is at least k percent of the set max_capacity m.
AtLeast(c, k, m) == m > 0 /\ c * 100 >= k * m
Below(c, k, m) == m > 0 /\ c * 100 < k * m

\* The update went upward over the 90% or over the 100% threshold.
Crossed(old, new, k, m) == Below(old, k, m) /\ AtLeast(new, k, m)

CapacityAlertsOf(p) ==
    SelectSeq(out[p].alerts, LAMBDA a : a.alert_type = "capacity")

\* C12: a capacity update from below 90% to at least 90% and below 100% of
\* max_capacity creates exactly one alert, of type capacity and priority 3.
C12_NearlyFullAlert ==
    \A p \in Procs :
        (/\ CapacityUpdated(p)
         /\ Crossed(base.current_capacity, req[p].capacity, 90, base.max_capacity)
         /\ Below(req[p].capacity, 100, base.max_capacity))
        => out[p].alerts = <<Alert("capacity", 3, FALSE)>>

\* C13: a capacity update from at least 90% and below 100% to at least 100%
\* of max_capacity creates exactly one alert, of type capacity and
\* priority 4.
C13_FullAlert ==
    \A p \in Procs :
        (/\ CapacityUpdated(p)
         /\ AtLeast(base.current_capacity, 90, base.max_capacity)
         /\ Crossed(base.current_capacity, req[p].capacity, 100, base.max_capacity))
        => /\ Len(out[p].alerts) = 1
           /\ out[p].alerts[1].alert_type = "capacity"
           /\ out[p].alerts[1].priority = 4

\* C13 witness: an update from 99 to 100 of 100 has been served and its
\* capacity record and alert created.
C13_Witness ==
    \E p \in Procs :
        /\ CapacityUpdated(p)
        /\ base.max_capacity = 100 /\ base.current_capacity = 99
        /\ req[p].capacity = 100
        /\ CountOf(out[p].events, "capacity") = 1
        /\ Len(out[p].alerts) = 1

\* C14: a capacity update to 100 of an open service at 85 of 100 leaves the
\* status full, creates one capacity record and one status record, and
\* exactly one alert, of type capacity and priority 4.
C14_JumpToFull ==
    \A p \in Procs :
        (/\ CapacityUpdated(p)
         /\ base.max_capacity = 100 /\ base.current_capacity = 85
         /\ base.current_status = OPEN
         /\ req[p].capacity = 100)
        => /\ db.current_status = FULL
           /\ CountOf(out[p].events, "capacity") = 1
           /\ CountOf(out[p].events, "status") = 1
           /\ Len(out[p].alerts) = 1
           /\ out[p].alerts[1].alert_type = "capacity"
           /\ out[p].alerts[1].priority = 4

\* C15: a request creates a capacity alert only when it takes the capacity
\* upward over the 90% or the 100% threshold, and then one only: an update
\* from a capacity at or above a threshold to another at or above it (90 to
\* 95, 100 to 120 of 100) creates none.
C15_AlertOnlyOnCrossing ==
    \A p \in Procs :
        /\ Len(CapacityAlertsOf(p)) <= 1
        /\ CapacityAlertsOf(p) # <<>>
           => \/ Crossed(base.current_capacity, db.current_capacity, 90, base.max_capacity)
              \/ Crossed(base.current_capacity, db.current_capacity, 100, base.max_capacity)

\* C15 witness: updates from 100 to 120 of 100 and, on the other entry
\* point, from 90 to 95 have been served and recorded without an alert.
C15_Witness ==
    \E p \in Procs :
        /\ CapacityUpdated(p)
        /\ base.max_capacity = 100
        /\ CountOf(out[p].events, "capacity") = 1
        /\ out[p].alerts = <<>>
        /\ \/ base.current_capacity = 100 /\ req[p].capacity = 120
                /\ req[p].op = "model_capacity"
           \/ base.current_capacity = 90 /\ req[p].capacity = 95
                /\ req[p].op = "capacity"

\* The status change the urgent-alert rule names.
UrgentRule(row) ==
    \/ row.current_status \in {EMERGENCY_ONLY, TEMPORARILY_CLOSED}
    \/ row.current_status = CLOSED /\ row.is_emergency_service

StatusChanged == db.current_status # base.current_status

\* C16: every request that has changed the stored status to emergency-only
\* or temporarily closed, or to closed on an emergency service, has created
\* exactly one alert, of type urgent, priority 5 and requiring
\* acknowledgment.
C16_UrgentAlert ==
    \A p \in Procs :
        (Succeeded(p) /\ StatusChanged /\ UrgentRule(db))
        => out[p].alerts = <<Alert("urgent", 5, TRUE)>>

\* C17: a request creates no alert unless it takes the capacity upward over
\* 90% or 100% of a set max_capacity or changes the status as the urgent
\* rule names: capacity decreases, updates that cross no threshold, updates
\* of a service without max_capacity, status changes to open, full or
\* limited and to closed on a non-emergency service create none.
C17_NoOtherAlert ==
    \A p \in Procs :
        (/\ ~Crossed(base.current_capacity, db.current_capacity, 90, base.max_capacity)
         /\ ~Crossed(base.current_capacity, db.current_capacity, 100, base.max_capacity)
         /\ ~(StatusChanged /\ UrgentRule(db)))
        => out[p].alerts = <<>>

\* C17 witness: a non-emergency service has been closed by a status
\* request, the change was detected and recorded, and no alert created.
C17_Witness ==
    \E p \in Procs :
        /\ Succeeded(p) /\ IsUpdateStatus(req[p])
        /\ ~db.is_emergency_service
        /\ db.current_status = CLOSED /\ base.current_status # CLOSED
        /\ CountOf(out[p].events, "status") = 1
        /\ out[p].alerts = <<>>

\* The user on whose behalf a request runs.
Actor(r) == IF r.op = "bulk_status" THEN Admin ELSE Manager

\* C18: a request that has committed status or capacity transitions has
\* appended to the audit log exactly one entry for each of them, each with
\* the acting user and the action.
C18_OneAuditEntryPerChange ==
    \A p \in Procs :
        (Succeeded(p) /\ commits[p] # <<>>)
        => /\ Len(out[p].audit) = Len(commits[p])
           /\ \A i \in 1..Len(out[p].audit) :
                 /\ out[p].audit[i].user = Actor(req[p])
                 /\ out[p].audit[i].action # ""

\* Two characters that differ by case at most.
CasePairs == {<<"A", "a">>, <<"B", "b">>, <<"F", "f">>}
SameLetter(x, y) == x = y \/ <<x, y>> \in CasePairs \/ <<y, x>> \in CasePairs

\* The needle occurs in the text at position i, case ignored.
OccursAt(needle, text, i) ==
    /\ i + Len(needle) - 1 <= Len(text)
    /\ \A k \in 1..Len(needle) : SameLetter(needle[k], text[i + k - 1])

\* The text filter of a query: the query without the blanks around it
\* occurs somewhere in the row's search blob, case ignored.
TextMatch(query, blob) ==
    \E i \in 1..(Len(query) + 1), j \in 0..Len(query) :
        /\ \A k \in 1..(i - 1) : query[k] = Space
        /\ \A k \in (j + 1)..Len(query) : query[k] = Space
        /\ i <= j => query[i] # Space /\ query[j] # Space
        /\ j >= i - 1
        /\ \E at \in 1..(Len(blob) + 1) : OccursAt(SubSeq(query, i, j), blob, at)

\* The row passes every filter the criteria supply; a filter that is
\* omitted (an empty query, no category, no radius or a radius of 0, no
\* location to take the radius from, emergency mode off) restricts nothing.
Satisfies(row, c) ==
    /\ c.query # <<>> => TextMatch(c.query, search_vector(row))
    /\ (c.user_location = Here /\ c.max_distance_km > 0)
       => row.distance <= c.max_distance_km
    /\ c.category_preference # NoValue => row.category_type = c.category_preference
    /\ c.emergency_mode => row.is_emergency_service

TableDistance(km) ==
    CASE km <= 1 -> 5 [] km > 1 /\ km <= 3 -> 4 [] km > 3 /\ km <= 5 -> 3
      [] km > 5 /\ km <= 10 -> 2 [] OTHER -> 1
TableAvailability(status) ==
    CASE status = OPEN -> 5 [] status = LIMITED -> 4 [] status = EMERGENCY_ONLY -> 3
      [] status = FULL -> 2 [] OTHER -> 1
TableQuality(q) ==
    CASE q >= 450 -> 5 [] q < 450 /\ q >= 350 -> 4 [] q < 350 /\ q >= 250 -> 3
      [] q < 250 /\ q >= 150 -> 2 [] OTHER -> 1

\* The sub-scores and the composite of every returned row are those of the
\* tables and of the weighted sum (in hundredths).
ScoresFollowTables ==
    \A k \in 1..Len(results) :
        LET r == results[k]
            row == services[r.id]
        IN  /\ r.text_score = (IF criteria.query # <<>> THEN 2 ELSE 1)
            /\ criteria.user_location = Here
               => r.distance_score = TableDistance(row.distance)
            /\ r.availability_score = TableAvailability(row.current_status)
            /\ r.quality_score_int = TableQuality(row.quality_score)
            /\ r.emergency_boost =
                   (IF criteria.emergency_mode /\ row.is_emergency_service
                    THEN 3 ELSE 0)
            /\ r.composite_score =
                   20 * r.text_score + 25 * r.distance_score
                   + 25 * r.availability_score + 20 * r.quality_score_int
                   + 10 * r.emergency_boost

C26_UnsetMaxCapacity ==
    \A p \in Procs :
        (/\ Succeeded(p) /\ req[p].op = "model_capacity"
         /\ base.max_capacity = 0)
        => /\ db.current_status # FULL
           /\ base.current_status = FULL => db.current_status = OPEN
           /\ base.current_status # FULL => db.current_status = base.current_status

\* C26 witness: a full service without max_capacity has been given the
\* capacity 120 by update_capacity and is open.
C26_Witness ==
    \E p \in Procs :
        /\ Succeeded(p) /\ req[p].op = "model_capacity"
        /\ base.max_capacity = 0 /\ base.current_status = FULL
        /\ req[p].capacity = 120
        /\ db.current_capacity = 120 /\ db.current_status = OPEN

\* The notify_observers calls of request p with the event type given; each
\* call reaches every subscribed observer once.
NotifiedOf(p, event_type) ==
    Cardinality({i \in 1..Len(out[p].notified) : out[p].notified[i] = event_type})

\* C27: a request that has changed the stored status to emergency-only or
\* temporarily closed has sent the observers exactly one 'emergency_alert'
\* notification and exactly one 'status_changed' notification.
C27_OneEmergencyNotification ==
    \A p \in Procs :
        (/\ Succeeded(p) /\ StatusChanged
         /\ db.current_status \in {EMERGENCY_ONLY, TEMPORARILY_CLOSED})
        => /\ NotifiedOf(p, "emergency_alert") = 1
           /\ NotifiedOf(p, "status_changed") = 1

\* The status handler of request p has logged a failure of its own: the
\* creation of the status-update record or of the audit entry has raised.
RecordOrAuditFailed(p) ==
    \E i \in 1..Len(out[p].errors) : out[p].errors[i] = "_handle_status_change"

\* C23: when the status-update record or the audit entry of a committed
\* status change cannot be written, the urgent alert of the change is
\* created all the same if the alert rule applies, and the observers are
\* sent 'status_changed'.
C23_AuditAndAlertIsolated ==
    \A p \in Procs :
        (Done(p) /\ StatusChanged /\ RecordOrAuditFailed(p))
        => /\ UrgentRule(db)
              => \E i \in 1..Len(out[p].alerts) : out[p].alerts[i].alert_type = "urgent"
           /\ NotifiedOf(p, "status_changed") >= 1

\* The part of the composite that can differ between two rows of one
\* result, in hundredths.
RowScore(r) == 25 * r.distance_score + 25 * r.availability_score + 20 * r.quality_score_int

CallsOf(o) == Cardinality({i \in 1..Len(calls) : calls[i] = o})

\* Observer o was subscribed or unsubscribed by a handler during the
\* current notify_observers.
Resubscribed(o) ==
    \E i \in 1..Len(logged) : logged[i] = [observer |-> o, level |-> "debug"]

\* C24: when notify_observers has returned, every observer with a handler
\* that was subscribed at the call, other than those a handler has
\* unsubscribed meanwhile, has been called exactly once, whatever the
\* handlers have subscribed or unsubscribed during the iteration.
C24_ReentrantNotify ==
    dpc = "returned"
    => \A o \in ObserverIds :
          (Contains(subscribed, o) /\ HasHandler(o) /\ ~Resubscribed(o))
          => CallsOf(o) = 1

\* The name of the call that has just ended was not registered when the
\* call began.
UnknownName == call.registry[call.name] = NoStrategy

C22_BoundedRetry ==
    \A n \in 1..Len(queue) :
        /\ attempts[n] <= 3
        /\ queue[n].status = "failed" => queue[n].retry_count <= 3

\* C28: a notification that a run of process_notification_queue has
\* handled is recorded as sent or as failed, and no notification is
\* delivered twice, also when runs overlap.
C28_DeliveredOnce ==
    \A n \in 1..Len(queue) :
        /\ attempts[n] >= 1 => queue[n].status \in {"sent", "failed"}
        /\ deliveries[n] <= 1

\* C25: whatever the interleaving of the first constructions of a console
\* singleton, at most one instance is allocated, _initialize runs at most
\* once, and the instance a caller is handed has been initialized.
C25_SingletonConstruction ==
    /\ singleton.allocated <= 1
    /\ singleton.initialized <= 1
    /\ \A t \in Callers : caller[t].at = "done" => caller[t].got = "initialized"

\* C29: for each of the six feature flags, from the return of
\* toggle_feature_flag with the new state v until the flag is toggled
\* again, the stored SystemSettings field of the flag is v and
\* is_feature_enabled returns v, whatever reloads happen meanwhile.
C29_ToggleIsStored ==
    \A f \in FeatureFlags :
        toggled[f] # "never"
        => /\ settings[FlagField[f]] = (toggled[f] = "on")
           /\ loader.feature_flags[f] = (toggled[f] = "on")

====
